---- MODULE Spec2Model ----
(***************************************************************************)
(* Model of the prescription OCR server (Express handlers over a JSON      *)
(* flat-file store and a results archive) and of the extraction client.    *)
(* Strings are sequences of one-character strings, so that path.basename,  *)
(* path.join, String.startsWith, String.replace and String.slice are       *)
(* computed character by character as Node computes them (POSIX paths).    *)
(***************************************************************************)
EXTENDS Integers, Sequences, FiniteSets, TLC

VARIABLES
    now,        \* the wall clock read by Date.now() / new Date(), in ms
    cwd,        \* process.cwd() of the server process
    dirs,       \* the file system: the absolute paths of the directories
    files,      \* the file system: absolute path -> file content (a text)
    resp,       \* the last HTTP response sent by the archive handlers
    saved,      \* history: filename -> content of the last successful save
    nSaves,     \* number of POST /api/save-result requests handled
    reqs,       \* POST /api/prescriptions requests: slot -> request state
    running,    \* the request whose handler occupies the event loop (0: none)
    appended,   \* history: payloads of the appends, in completion order
    ex,         \* the extraction call in progress (processPrescriptionImage)
    ui          \* the client component: its React state and handleProcess

vars == <<now, cwd, dirs, files, resp, saved, nSaves, reqs, running, appended, ex, ui>>

-----------------------------------------------------------------------------
(* Bounds of the model. *)

\* The clock stays below MaxClock milliseconds.
MaxClock == 1000
\* At most MaxSaves archive saves are handled in one run.
MaxSaves == 2
\* At most MaxReqs append requests are issued in one run.
MaxReqs == 2

-----------------------------------------------------------------------------
(* Strings *)

Slash == "/"

\* The characters matched by the regular expression class \s that the model uses.
IsSpace(c) == c \in {" ", "\t"}

StartsWith(s, p) ==
    /\ Len(p) <= Len(s)
    /\ \A i \in 1..Len(p) : s[i] = p[i]

EndsWith(s, p) ==
    /\ Len(p) <= Len(s)
    /\ \A i \in 1..Len(p) : s[Len(s) - Len(p) + i] = p[i]

\* s.slice(0, -n)
SliceEnd(s, n) == IF Len(s) <= n THEN <<>> ELSE SubSeq(s, 1, Len(s) - n)

\* s.split(sep) for a one-character separator: the sequence of pieces, cut at
\* the positions of the separator.
Split(s, sep) ==
    LET cuts == {i \in 1..Len(s) : s[i] = sep}
        k == Cardinality(cuts)
        pos(j) == IF j = 0 THEN 0
                  ELSE IF j = k + 1 THEN Len(s) + 1
                  ELSE CHOOSE i \in cuts : Cardinality({q \in cuts : q < i}) = j - 1
    IN  [j \in 1..(k + 1) |-> SubSeq(s, pos(j - 1) + 1, pos(j) - 1)]

\* pieces.join(sep)
RECURSIVE JoinWith(_, _)
JoinWith(pieces, sep) ==
    IF pieces = <<>> THEN <<>>
    ELSE IF Len(pieces) = 1 THEN pieces[1]
    ELSE pieces[1] \o <<sep>> \o JoinWith(Tail(pieces), sep)

-----------------------------------------------------------------------------
(* Node's path module, POSIX flavour *)

\* normalizeString: resolves "." and ".." segments lexically.
RECURSIVE NormalizeSegments(_, _, _)
NormalizeSegments(segs, acc, allowAboveRoot) ==
    IF segs = <<>> THEN acc
    ELSE LET s == Head(segs) IN
         IF s = <<>> \/ s = <<".">> THEN
             NormalizeSegments(Tail(segs), acc, allowAboveRoot)
         ELSE IF s = <<".", ".">> THEN
             IF acc # <<>> /\ acc[Len(acc)] # <<".", ".">> THEN
                 NormalizeSegments(Tail(segs), SubSeq(acc, 1, Len(acc) - 1), allowAboveRoot)
             ELSE IF allowAboveRoot THEN
                 NormalizeSegments(Tail(segs), Append(acc, s), allowAboveRoot)
             ELSE NormalizeSegments(Tail(segs), acc, allowAboveRoot)
         ELSE NormalizeSegments(Tail(segs), Append(acc, s), allowAboveRoot)

\* path.normalize
PathNormalize(p) ==
    IF p = <<>> THEN <<".">>
    ELSE LET isAbsolute == p[1] = Slash
             trailing   == p[Len(p)] = Slash
             body == JoinWith(NormalizeSegments(Split(p, Slash), <<>>, ~isAbsolute), Slash)
             body2 == IF body = <<>> /\ ~isAbsolute THEN <<".">> ELSE body
             body3 == IF body2 # <<>> /\ trailing THEN Append(body2, Slash) ELSE body2
         IN  IF isAbsolute THEN <<Slash>> \o body3 ELSE body3

\* path.join(a, b): empty arguments are skipped, the rest joined and normalized.
PathJoin(a, b) ==
    IF a = <<>> /\ b = <<>> THEN <<".">>
    ELSE IF a = <<>> THEN PathNormalize(b)
    ELSE IF b = <<>> THEN PathNormalize(a)
    ELSE PathNormalize(a \o <<Slash>> \o b)

RECURSIVE StripTrailingSlashes(_)
StripTrailingSlashes(p) ==
    IF p # <<>> /\ p[Len(p)] = Slash
    THEN StripTrailingSlashes(SubSeq(p, 1, Len(p) - 1))
    ELSE p

\* path.basename: the last portion of the path, trailing separators ignored.
PathBasename(p) ==
    LET q == StripTrailingSlashes(p)
        pieces == Split(q, Slash)
    IN  pieces[Len(pieces)]

\* path.resolve(p) against the working directory d: absolute, normalized, no
\* trailing separator.
PathResolveIn(d, p) ==
    LET full == IF p # <<>> /\ p[1] = Slash THEN p ELSE d \o <<Slash>> \o p
        segs == NormalizeSegments(Split(full, Slash), <<>>, FALSE)
    IN  <<Slash>> \o JoinWith(segs, Slash)

\* path.dirname of an absolute normalized path.
PathDirname(p) ==
    LET pieces == Split(p, Slash)
        d == JoinWith(SubSeq(pieces, 1, Len(pieces) - 1), Slash)
    IN  IF d = <<>> THEN <<Slash>> ELSE d

-----------------------------------------------------------------------------
(* JavaScript values and JSON texts *)

Undefined == [t |-> "undefined"]
Null == [t |-> "null"]
JSString(s) == [t |-> "string", s |-> s]
JSNumber(n) == [t |-> "number", n |-> n]
\* An object is a function from its own keys to values.
JSObject(fields) == [t |-> "object", f |-> fields]
JSArray(items) == [t |-> "array", items |-> items]
JSBool(b) == [t |-> "boolean", b |-> b]

IsNullish(v) == v.t \in {"undefined", "null"}

\* !v : the falsy values are undefined, null, "" and 0.
Falsy(v) ==
    \/ IsNullish(v)
    \/ (v.t = "string" /\ v.s = <<>>)
    \/ (v.t = "number" /\ v.n = 0)

\* v.key for a non-nullish v: a missing key, or any key of a primitive, reads
\* as undefined.
Get(v, key) ==
    IF v.t = "object" /\ key \in DOMAIN v.f THEN v.f[key] ELSE Undefined

\* The value a JSON text of v denotes: JSON.stringify drops the keys of an
\* object whose value is undefined.
RECURSIVE JSONValue(_)
JSONValue(v) ==
    IF v.t = "object" THEN
        LET keep == {k \in DOMAIN v.f : v.f[k].t # "undefined"}
        IN  JSObject([k \in keep |-> JSONValue(v.f[k])])
    ELSE IF v.t = "array" THEN
        JSArray([i \in 1..Len(v.items) |->
                    IF v.items[i].t = "undefined" THEN Null ELSE JSONValue(v.items[i])])
    ELSE v

\* A file content or response body is a text: the JSON text of a value, or
\* characters that are not JSON.
JSONText(v) == [kind |-> "json", value |-> v, chars |-> <<>>]
RawText(s) == [kind |-> "raw", value |-> Null, chars |-> s]
NoText == [kind |-> "none", value |-> Null, chars |-> <<>>]

\* JSON.stringify(v, null, 2) of a defined value.
JSONStringify(v) == JSONText(JSONValue(v))

\* JSON.parse: the value of a JSON text, a SyntaxError on anything else.
JSONParse(text) ==
    IF text.kind = "json" THEN [ok |-> TRUE, value |-> text.value]
    ELSE [ok |-> FALSE, value |-> Undefined]

-----------------------------------------------------------------------------
(* Date.prototype.toISOString *)

Digit(d) == <<"0", "1", "2", "3", "4", "5", "6", "7", "8", "9">>[d + 1]
Pad2(n) == <<Digit((n \div 10) % 10), Digit(n % 10)>>
Pad3(n) == <<Digit((n \div 100) % 10), Digit((n \div 10) % 10), Digit(n % 10)>>

\* The calendar date of an instant of the first day of the epoch, which is where
\* the clock of the model stays (MaxClock is far below 86400000 ms).
EpochDate == <<"1", "9", "7", "0", "-", "0", "1", "-", "0", "1">>

\* new Date(ms).toISOString() : YYYY-MM-DDTHH:mm:ss.sssZ
ToISOString(ms) ==
    LET secs == ms \div 1000 IN
    EpochDate \o <<"T">> \o Pad2((secs \div 3600) % 24) \o <<":">>
        \o Pad2((secs \div 60) % 60) \o <<":">> \o Pad2(secs % 60)
        \o <<".">> \o Pad3(ms % 1000) \o <<"Z">>

\* s.replace(/[:.]/g, "-")
ReplaceColonsDots(s) ==
    [i \in 1..Len(s) |-> IF s[i] \in {":", "."} THEN "-" ELSE s[i]]

\* s.replace(/\s+/g, "_") : every maximal run of whitespace becomes one "_".
RECURSIVE DropSpaces(_)
DropSpaces(s) ==
    IF s # <<>> /\ IsSpace(Head(s)) THEN DropSpaces(Tail(s)) ELSE s

RECURSIVE ReplaceSpaceRuns(_)
ReplaceSpaceRuns(s) ==
    IF s = <<>> THEN <<>>
    ELSE IF IsSpace(Head(s)) THEN <<"_">> \o ReplaceSpaceRuns(DropSpaces(s))
    ELSE <<Head(s)>> \o ReplaceSpaceRuns(Tail(s))

-----------------------------------------------------------------------------
(* The file system *)

DB_FILE == <<"p", "r", "e", "s", "c", "r", "i", "p", "t", "i", "o", "n", "s", ".", "j", "s", "o", "n">>
ResultsDir == <<"r", "e", "s", "u", "l", "t", "s">>
UploadsDir == <<"u", "p", "l", "o", "a", "d", "s">>

Resolve(p) == PathResolveIn(cwd, p)

\* fs.existsSync
ExistsSync(p) == Resolve(p) \in DOMAIN files \/ Resolve(p) \in dirs

\* fs.writeFileSync succeeds when the parent directory exists and the path is
\* not a directory; otherwise it throws (ENOENT, EISDIR).
CanWrite(p) == PathDirname(Resolve(p)) \in dirs /\ Resolve(p) \notin dirs

\* As WriteFile, opened with the "wx" flag: an existing file is kept as it is.
WriteFile_KeepExisting(fs, p, text) ==
    LET target == Resolve(p)
    IN  [q \in DOMAIN fs \cup {target} |-> IF q \in DOMAIN fs THEN fs[q] ELSE text]

WriteFile(fs, p, text) ==
    LET target == Resolve(p)
    IN  [q \in DOMAIN fs \cup {target} |-> IF q = target THEN text ELSE fs[q]]

-----------------------------------------------------------------------------
(* Inputs of the archive handlers *)

\* metadata.doctor_name values sent by clients.
DoctorNames ==
    { <<"D", "r", ".", " ", "J", "a", "n", "e", " ", "S", "m", "i", "t", "h">>,
      <<"a", " ", "\t", "b">>,
      <<"x", "/", ".", ".", "/", ".", ".", "/", "y">>,
      <<>> }

ResultWith(meta) == JSObject([status |-> JSString(<<"o", "k">>), metadata |-> meta])
MetaWith(doctor) == JSObject([doctor_name |-> doctor])

\* The values of req.body.result: absent, null, falsy primitives, objects
\* without metadata, without doctor_name, with a non-string doctor_name, and
\* with each doctor name.
Results ==
    { Undefined, Null, JSString(<<>>),
      JSObject([status |-> JSString(<<"o", "k">>)]),
      ResultWith(JSObject([image_quality |-> JSString(<<"g">>)])),
      ResultWith(MetaWith(JSNumber(7))) }
    \cup { ResultWith(MetaWith(JSString(d))) : d \in DoctorNames }

\* The :filename parameters requested besides the names that saves returned.
RequestNames ==
    { <<"m", "i", "s", "s", "i", "n", "g", ".", "j", "s", "o", "n">>,
      <<".", ".", "/", ".", ".", "/", "e", "t", "c", "/", "p", "a", "s", "s", "w", "d">>,
      <<".", ".", "/", "p", "r", "e", "s", "c", "r", "i", "p", "t", "i", "o", "n", "s", ".", "j", "s", "o", "n">>,
      <<".", ".">> }

Cwds == { <<"/">>, <<"/", "a", "p", "p">> }

NoResponse ==
    [op |-> "none", status |-> 0, name |-> <<>>, filename |-> <<>>,
     filepath |-> <<>>, content |-> NoText, result |-> Undefined, at |-> 0,
     names |-> {}, replaced |-> FALSE]

-----------------------------------------------------------------------------
(* POST /api/save-result *)

\* As MissingResult, testing only result === undefined.
MissingResult_UndefinedOnly(result) == result.t = "undefined"

\* if (!result)
MissingResult(result) == Falsy(result)

\* As Timestamp, with slice(0, -4): the separator before the milliseconds stays.
Timestamp_Slice4(ms) == SliceEnd(ReplaceColonsDots(ToISOString(ms)), 4)

\* new Date().toISOString().replace(/[:.]/g, "-").slice(0, -5)
Timestamp(ms) == SliceEnd(ReplaceColonsDots(ToISOString(ms)), 5)

\* result.metadata?.doctor_name?.replace(/\s+/g, "_") || "unknown"
\* threw: reading a property of a nullish result, or calling .replace on a
\* doctor_name that is not a string, raises a TypeError.
DoctorNameOf(result) ==
    IF IsNullish(result) THEN [threw |-> TRUE, name |-> <<>>]
    ELSE LET meta == Get(result, "metadata")
             doctor == IF IsNullish(meta) THEN Undefined ELSE Get(meta, "doctor_name")
         IN  IF IsNullish(doctor) THEN [threw |-> FALSE, name |-> <<"u", "n", "k", "n", "o", "w", "n">>]
             ELSE IF doctor.t # "string" THEN [threw |-> TRUE, name |-> <<>>]
             ELSE LET replaced == ReplaceSpaceRuns(doctor.s)
                  IN  IF replaced = <<>>
                      THEN [threw |-> FALSE, name |-> <<"u", "n", "k", "n", "o", "w", "n">>]
                      ELSE [threw |-> FALSE, name |-> replaced]

\* `prescription_${doctorName}_${timestamp}.json`
Filename(doctorName, timestamp) ==
    <<"p", "r", "e", "s", "c", "r", "i", "p", "t", "i", "o", "n", "_">> \o doctorName \o <<"_">> \o timestamp \o <<".", "j", "s", "o", "n">>

\* path.join("results", filename)
SaveFilepath(filename) == PathJoin(ResultsDir, filename)

\* replaced: the write replaced a file that existed (history, not sent).
SaveResponse(status, result, filename, filepath) ==
    [op |-> "save", status |-> status, name |-> <<>>, filename |-> filename,
     filepath |-> filepath, content |-> NoText, result |-> result, at |-> now,
     names |-> {},
     replaced |-> (status = 200 /\ Resolve(filepath) \in DOMAIN files)]

PostSaveResult(result) ==
    /\ nSaves < MaxSaves
    /\ nSaves' = nSaves + 1
    /\ IF MissingResult(result) THEN
           /\ resp' = SaveResponse(400, result, <<>>, <<>>)
           /\ UNCHANGED <<files, saved>>
       ELSE LET doctorName == DoctorNameOf(result)
                filename == Filename(doctorName.name, Timestamp(now))
                filepath == SaveFilepath(filename)
            IN  IF doctorName.threw THEN
                    /\ resp' = SaveResponse(500, result, <<>>, <<>>)
                    /\ UNCHANGED <<files, saved>>
                ELSE IF CanWrite(filepath) THEN
                    /\ files' = WriteFile(files, filepath, JSONStringify(result))
                    /\ saved' = [f \in DOMAIN saved \cup {filename} |->
                                    IF f = filename THEN JSONStringify(result) ELSE saved[f]]
                    /\ resp' = SaveResponse(200, result, filename, filepath)
                ELSE
                    /\ resp' = SaveResponse(500, result, <<>>, <<>>)
                    /\ UNCHANGED <<files, saved>>
    /\ UNCHANGED <<now, cwd, dirs, reqs, running, appended, ex, ui>>

-----------------------------------------------------------------------------
(* GET /api/results/:filename *)

\* As Confined, with the traversal guard left out.
Confined_Always(filepath) == TRUE

\* filepath.startsWith(path.resolve("results"))
Confined(filepath) == StartsWith(filepath, Resolve(ResultsDir))

GetResponse(status, name, filepath, content) ==
    [op |-> "get", status |-> status, name |-> name, filename |-> PathBasename(name),
     filepath |-> filepath, content |-> content, result |-> Undefined, at |-> now,
     names |-> {}, replaced |-> FALSE]

\* res.download of a path that is a directory sends no file: the request is
\* answered with an error (modelled as status 500).
GetResultFile(name) ==
    /\ LET filename == PathBasename(name)
           filepath == PathJoin(ResultsDir, filename)
       IN  IF ~Confined(filepath) THEN
               resp' = GetResponse(403, name, filepath, NoText)
           ELSE IF ExistsSync(filepath) THEN
               IF Resolve(filepath) \in DOMAIN files
               THEN resp' = GetResponse(200, name, filepath, files[Resolve(filepath)])
               ELSE resp' = GetResponse(500, name, filepath, NoText)
           ELSE resp' = GetResponse(404, name, filepath, NoText)
    /\ UNCHANGED <<now, cwd, dirs, files, saved, nSaves, reqs, running, appended, ex, ui>>

-----------------------------------------------------------------------------
(* GET /api/results *)

\* fs.readdirSync(dir): the names of the entries directly in dir. The order
\* is the file system's; the model keeps the set of names.
ReaddirSync(dir) ==
    {PathBasename(q) : q \in {f \in DOMAIN files \cup dirs :
                                f # <<Slash>> /\ PathDirname(f) = Resolve(dir)}}

\* { results: files } with files the .json names; names holds that array.
ResultsResponse(names) ==
    [op |-> "results", status |-> 200, name |-> <<>>, filename |-> <<>>,
     filepath |-> <<>>, content |-> NoText, result |-> Undefined, at |-> now,
     names |-> names, replaced |-> FALSE]

ListResults ==
    /\ IF ~ExistsSync(ResultsDir) THEN resp' = ResultsResponse({})
       ELSE resp' = ResultsResponse({f \in ReaddirSync(ResultsDir) : EndsWith(f, <<".", "j", "s", "o", "n">>)})
    /\ UNCHANGED <<now, cwd, dirs, files, saved, nSaves, reqs, running, appended, ex, ui>>

\* The results directory is deleted from outside the server, with the files in
\* it; the saves made so far no longer count as archived.
ResultsDirRemoved ==
    /\ Resolve(ResultsDir) \in dirs
    /\ dirs' = dirs \ {Resolve(ResultsDir)}
    /\ files' = [q \in {f \in DOMAIN files : PathDirname(f) # Resolve(ResultsDir)} |-> files[q]]
    /\ saved' = <<>>
    /\ UNCHANGED <<now, cwd, resp, nSaves, reqs, running, appended, ex, ui>>

-----------------------------------------------------------------------------
(* The Result Store: getPrescriptions / savePrescription *)

\* As getPrescriptions, with a parse failure swallowed into an empty list.
getPrescriptions_Lenient(fs) ==
    IF Resolve(DB_FILE) \notin DOMAIN fs THEN [ok |-> FALSE, value |-> Undefined]
    ELSE IF JSONParse(fs[Resolve(DB_FILE)]).ok THEN JSONParse(fs[Resolve(DB_FILE)])
    ELSE [ok |-> TRUE, value |-> JSArray(<<>>)]

\* fs.readFileSync(DB_FILE, "utf-8") then JSON.parse: the stored array, or a
\* throw when the file is missing or its content is not JSON.
getPrescriptions(fs) ==
    IF Resolve(DB_FILE) \notin DOMAIN fs THEN [ok |-> FALSE, value |-> Undefined]
    ELSE JSONParse(fs[Resolve(DB_FILE)])

\* { id: Date.now(), data: prescription, created_at: new Date().toISOString() }
\* Both clock reads of one call fall in the same millisecond t.
NewPrescription(prescription, t) ==
    JSObject([id |-> JSNumber(t), data |-> prescription,
              created_at |-> JSString(ToISOString(t))])

\* As PushRecord, with unshift in place of push.
PushRecord_Unshift(prescriptions, record) ==
    JSArray(<<record>> \o prescriptions.items)

\* prescriptions.push(newPrescription)
PushRecord(prescriptions, record) ==
    JSArray(Append(prescriptions.items, record))

\* fs.writeFileSync(DB_FILE, JSON.stringify(prescriptions, null, 2))
WriteDb(fs, prescriptions) == WriteFile(fs, DB_FILE, JSONStringify(prescriptions))

\* The payloads of req.body.data: absent, or an extraction result.
Payloads ==
    { Undefined, ResultWith(MetaWith(JSString(<<"D">>))) }

\* As EventLoopFree, for a handler that yields to the event loop between its
\* read and its write (asynchronous file I/O).
EventLoopFree_Yielding == TRUE

\* The handler of POST /api/prescriptions is synchronous: from its first
\* statement to its response nothing else runs on the event loop of the server.
EventLoopFree == running = 0

\* res.status(500).json({ error: "Failed to ..." }); the message is shortened
\* to the word that tells the handlers apart.
ErrorBody(what) == JSONStringify(JSObject([error |-> JSString(what)]))

\* express.json() has parsed the body; the handler is ready to run.
ReceiveAppend(data) ==
    /\ Len(reqs) < MaxReqs
    /\ reqs' = Append(reqs,
                 [pc |-> "queued", data |-> data, prescriptions |-> JSArray(<<>>),
                  status |-> 0, id |-> 0, body |-> NoText,
                  inFlight |-> {r \in 1..Len(reqs) : reqs[r].pc # "done"}])
    /\ UNCHANGED <<now, cwd, dirs, files, resp, saved, nSaves, running, appended, ex, ui>>

\* savePrescription, first half: const prescriptions = getPrescriptions().
\* A throw is caught by the handler, which answers 500.
HandlerRead(r) ==
    /\ r \in 1..Len(reqs)
    /\ reqs[r].pc = "queued"
    /\ EventLoopFree
    /\ LET got == getPrescriptions(files) IN
       IF got.ok /\ got.value.t = "array" THEN
           /\ reqs' = [reqs EXCEPT ![r].pc = "read", ![r].prescriptions = got.value]
           /\ running' = r
       ELSE
           /\ reqs' = [reqs EXCEPT ![r].pc = "done", ![r].status = 500,
                                   ![r].body = ErrorBody(<<"s", "a", "v", "e">>)]
           /\ running' = running
    /\ UNCHANGED <<now, cwd, dirs, files, resp, saved, nSaves, appended, ex, ui>>

\* savePrescription, second half: build the record, push it, rewrite the file,
\* then res.json({ success: true, id: saved.id }).
HandlerWrite(r) ==
    /\ r \in 1..Len(reqs)
    /\ reqs[r].pc = "read"
    /\ LET newPrescription == NewPrescription(reqs[r].data, now) IN
       /\ files' = WriteDb(files, PushRecord(reqs[r].prescriptions, newPrescription))
       /\ reqs' = [reqs EXCEPT ![r].pc = "done", ![r].status = 200, ![r].id = now,
                               ![r].body = JSONStringify(JSObject(
                                   [success |-> JSBool(TRUE), id |-> JSNumber(now)]))]
    /\ running' = IF running = r THEN 0 ELSE running
    /\ appended' = Append(appended, reqs[r].data)
    /\ UNCHANGED <<now, cwd, dirs, resp, saved, nSaves, ex, ui>>

\* GET /api/prescriptions: res.json(getPrescriptions()), 500 on a throw.
ListResponse(status, content) ==
    [op |-> "list", status |-> status, name |-> <<>>, filename |-> <<>>,
     filepath |-> <<>>, content |-> content, result |-> Undefined, at |-> now,
     names |-> {}, replaced |-> FALSE]

GetPrescriptions ==
    /\ EventLoopFree
    /\ LET got == getPrescriptions(files) IN
       IF got.ok THEN resp' = ListResponse(200, JSONStringify(got.value))
       ELSE resp' = ListResponse(500, ErrorBody(<<"f", "e", "t", "c", "h">>))
    /\ UNCHANGED <<now, cwd, dirs, files, saved, nSaves, reqs, running, appended, ex, ui>>

-----------------------------------------------------------------------------
(* The extraction client: processPrescriptionImage *)

\* Image payloads handed to the client: data URLs, bare base64, a data URL
\* with an empty body, and a payload with two commas.
Images ==
    { <<"d", "a", "t", "a", ":", "i", "m", "a", "g", "e", "/", "p", "n", "g", ";", "b", "a", "s", "e", "6", "4", ",", "Q", "U", "J", "D">>,
      <<"Q", "U", "J", "D">>,
      <<"d", "a", "t", "a", ":", "i", "m", "a", "g", "e", "/", "p", "n", "g", ";", "b", "a", "s", "e", "6", "4", ",">>,
      <<"a", ",", "b", ",", "c">>,
      <<",", "Q", "U", "J", "D">> }

MimeTypes == { <<"i", "m", "a", "g", "e", "/", "p", "n", "g">>, <<"i", "m", "a", "g", "e", "/", "j", "p", "e", "g">>, <<"i", "m", "a", "g", "e", "/", "w", "e", "b", "p">> }

\* response.text of the provider: undefined, the empty string, text that is
\* not JSON, and the JSON text of an extraction result.
ProviderTexts ==
    { NoText, RawText(<<>>), RawText(<<"S", "o", "r", "r", "y">>), RawText(<<"{">>),
      JSONText(ResultWith(MetaWith(JSString(<<"D">>)))),
      JSONText(JSObject([status |-> JSString(<<"e", "r", "r", "o", "r">>)])) }

\* base64Image.split(",")[1] || base64Image
InlineData(base64Image) ==
    LET parts == Split(base64Image, ",")
    IN  IF Len(parts) >= 2 /\ parts[2] # <<>> THEN parts[2] ELSE base64Image

\* As EmptyText, testing only text === undefined.
EmptyText_UndefinedOnly(text) == text.kind = "none"

\* !text : response.text is undefined or the empty string.
EmptyText(text) ==
    text.kind = "none" \/ (text.kind = "raw" /\ text.chars = <<>>)

ExIdle ==
    [pc |-> "idle", image |-> <<>>, mimeType |-> <<>>, data |-> <<>>, calls |-> 0,
     text |-> NoText, error |-> "", result |-> Undefined]

\* A call of processPrescriptionImage up to its await: one generateContent
\* request carrying the inline data and the MIME type.
ExtractStarts(base64Image, mimeType) ==
    /\ ex.pc \in {"idle", "returned", "threw"}
    /\ ex' = [ExIdle EXCEPT !.pc = "awaiting", !.image = base64Image,
                            !.mimeType = mimeType, !.data = InlineData(base64Image),
                            !.calls = 1]

\* The provider answers; the function resumes after the await: throws
\* Error("No response from AI") on an empty text, else returns JSON.parse(text),
\* which throws a SyntaxError on text that is not JSON.
ExtractResumes(text) ==
    /\ ex.pc = "awaiting"
    /\ IF EmptyText(text) THEN
           ex' = [ex EXCEPT !.pc = "threw", !.text = text,
                            !.error = "No response from AI"]
       ELSE IF JSONParse(text).ok THEN
           ex' = [ex EXCEPT !.pc = "returned", !.text = text,
                            !.result = JSONParse(text).value]
       ELSE
           ex' = [ex EXCEPT !.pc = "threw", !.text = text, !.error = "SyntaxError"]

\* The provider call rejects (network, quota): the rejection propagates.
ExtractRejected ==
    /\ ex.pc = "awaiting"
    /\ ex' = [ex EXCEPT !.pc = "threw", !.error = "provider error"]

\* processPrescriptionImage called on its own, outside the component.
Extract(base64Image, mimeType) ==
    /\ ExtractStarts(base64Image, mimeType)
    /\ UNCHANGED <<now, cwd, dirs, files, resp, saved, nSaves, reqs, running, appended, ui>>

ProviderAnswers(text) ==
    /\ ExtractResumes(text)
    /\ UNCHANGED <<now, cwd, dirs, files, resp, saved, nSaves, reqs, running, appended, ui>>

ProviderRejects ==
    /\ ExtractRejected
    /\ UNCHANGED <<now, cwd, dirs, files, resp, saved, nSaves, reqs, running, appended, ui>>

-----------------------------------------------------------------------------
(* The client component: processFile and handleProcess *)

GenericError == "Failed to process prescription. Please try a clearer image."

UiIdle ==
    [pc |-> "idle", image |-> <<>>, fileType |-> <<>>, loading |-> FALSE,
     error |-> "", saveMessage |-> <<>>, result |-> Undefined,
     backupThrew |-> FALSE, trace |-> <<>>]

\* processFile: setFile(file), and once the reader has loaded, setImage.
ProcessFile(image, fileType) ==
    /\ ui' = [ui EXCEPT !.image = image, !.fileType = fileType, !.error = ""]
    /\ UNCHANGED <<now, cwd, dirs, files, resp, saved, nSaves, reqs, running, appended, ex>>

\* As CatchFinally, without the finally block.
CatchFinally_NoFinally(u) ==
    [u EXCEPT !.pc = "done", !.error = GenericError]

\* catch (err) { setError(...) } finally { setLoading(false) }
CatchFinally(u) ==
    [u EXCEPT !.pc = "done", !.error = GenericError, !.loading = FALSE]

\* The try block completes: finally { setLoading(false) }
Finally(u) == [u EXCEPT !.pc = "done", !.loading = FALSE]

\* handleProcess up to its first await: returns at once without an image;
\* else setLoading(true), setError(null), setSaveMessage(null) and the call of
\* processPrescriptionImage(image, file.type).
HandleProcess ==
    /\ ui.pc \in {"idle", "done"}
    /\ IF ui.image = <<>> THEN UNCHANGED <<ui, ex>>
       ELSE /\ ExtractStarts(ui.image, ui.fileType)
            /\ ui' = [ui EXCEPT !.pc = "extracting", !.loading = TRUE, !.error = "",
                                !.saveMessage = <<>>, !.backupThrew = FALSE,
                                !.trace = <<>>]
    /\ UNCHANGED <<now, cwd, dirs, files, resp, saved, nSaves, reqs, running, appended>>

\* The extraction call settles and handleProcess resumes. On a throw: catch
\* and finally. On a result: setResult(data), the two localStorage.setItem
\* (which throw when storage is full or disabled), then the fetch of
\* POST /api/prescriptions is issued.
AfterExtraction(backupThrows) ==
    IF ex'.pc = "threw" THEN ui' = CatchFinally(ui)
    ELSE IF backupThrows THEN
        ui' = CatchFinally([ui EXCEPT !.result = ex'.result, !.backupThrew = TRUE])
    ELSE ui' = [ui EXCEPT !.pc = "appending", !.result = ex'.result,
                          !.trace = Append(ui.trace, "append issued")]

ExtractionSettles ==
    /\ ui.pc = "extracting"
    /\ \/ \E text \in ProviderTexts : ExtractResumes(text)
       \/ ExtractRejected
    /\ \E backupThrows \in BOOLEAN : AfterExtraction(backupThrows)
    /\ UNCHANGED <<now, cwd, dirs, files, resp, saved, nSaves, reqs, running, appended>>

\* How a fetch settles: a response with status 2xx, a response with an error
\* status, or a rejection (network failure).
FetchOutcomes == {"ok", "error status", "rejected"}

\* await fetch('/api/prescriptions', ...) settles; the response is not looked
\* at. Then the fetch of POST /api/save-result is issued.
AppendSettles(outcome) ==
    /\ ui.pc = "appending"
    /\ IF outcome = "rejected" THEN ui' = CatchFinally(ui)
       ELSE ui' = [ui EXCEPT !.pc = "saving",
                             !.trace = ui.trace \o <<"append settled", "save issued">>]
    /\ UNCHANGED <<now, cwd, dirs, files, resp, saved, nSaves, reqs, running, appended, ex>>

\* await fetch('/api/save-result', ...) settles: if (saveResponse.ok) the body
\* is awaited, else the try block is over.
SaveSettles(outcome) ==
    /\ ui.pc = "saving"
    /\ IF outcome = "rejected" THEN ui' = CatchFinally(ui)
       ELSE IF outcome = "ok" THEN
           ui' = [ui EXCEPT !.pc = "reading", !.trace = Append(ui.trace, "save settled")]
       ELSE ui' = Finally([ui EXCEPT !.trace = Append(ui.trace, "save settled")])
    /\ UNCHANGED <<now, cwd, dirs, files, resp, saved, nSaves, reqs, running, appended, ex>>

\* await saveResponse.json() settles: setSaveMessage with the filename, or a
\* rejection on a body that is not JSON.
BodySettles(parsed) ==
    /\ ui.pc = "reading"
    /\ IF parsed THEN ui' = Finally([ui EXCEPT !.saveMessage = <<"s", "a", "v", "e", "d">>])
       ELSE ui' = CatchFinally(ui)
    /\ UNCHANGED <<now, cwd, dirs, files, resp, saved, nSaves, reqs, running, appended, ex>>

-----------------------------------------------------------------------------
(* The clock *)

Tick ==
    /\ \E d \in {500, 1000} : now + d <= MaxClock /\ now' = now + d
    /\ UNCHANGED <<cwd, dirs, files, resp, saved, nSaves, reqs, running, appended, ex, ui>>

-----------------------------------------------------------------------------
(* The state once startServer has run in a fresh working directory: initDb has
   created the store file holding an empty array, and uploads/ and results/
   exist. *)

\* The working directory and its ancestors exist; startServer makes uploads/
\* and results/.
RECURSIVE Ancestors(_)
Ancestors(d) == IF d = <<Slash>> THEN {d} ELSE {d} \cup Ancestors(PathDirname(d))

StartDirs(d) ==
    Ancestors(d) \cup {PathResolveIn(d, ResultsDir), PathResolveIn(d, UploadsDir)}

\* As initDb, without the existsSync test: the file is written on every start.
initDb_Overwrite(fs) == WriteFile(fs, DB_FILE, JSONStringify(JSArray(<<>>)))

initDb(fs) ==
    IF Resolve(DB_FILE) \in DOMAIN fs THEN fs
    ELSE WriteFile(fs, DB_FILE, JSONStringify(JSArray(<<>>)))

Init ==
    /\ now = 0
    /\ cwd \in Cwds
    /\ dirs = StartDirs(cwd)
    /\ files = initDb(<<>>)
    /\ resp = NoResponse
    /\ saved = <<>>
    /\ nSaves = 0
    /\ reqs = <<>>
    /\ running = 0
    /\ appended = <<>>
    /\ ex = ExIdle
    /\ ui = UiIdle

\* The server process is restarted: the requests in flight are lost (status 0)
\* and startServer runs again, with initDb and the two mkdirSync.
Restart ==
    /\ files' = initDb(files)
    /\ dirs' = dirs \cup StartDirs(cwd)
    /\ running' = 0
    /\ reqs' = [r \in 1..Len(reqs) |->
                  IF reqs[r].pc = "done" THEN reqs[r]
                  ELSE [reqs[r] EXCEPT !.pc = "done", !.status = 0]]
    /\ UNCHANGED <<now, cwd, resp, saved, nSaves, appended, ex, ui>>

\* Texts an external edit can leave in the store file: a truncated array, an
\* empty file.
CorruptTexts == { RawText(<<"[", "{">>), RawText(<<>>) }

\* The store file is edited from outside the server and is no longer JSON.
StoreFileCorrupted ==
    /\ Resolve(DB_FILE) \in DOMAIN files
    /\ \E text \in CorruptTexts :
          /\ files[Resolve(DB_FILE)] # text
          /\ files' = WriteFile(files, DB_FILE, text)
    /\ UNCHANGED <<now, cwd, dirs, resp, saved, nSaves, reqs, running, appended, ex, ui>>

\* The store file is deleted from outside the server.
StoreFileRemoved ==
    /\ Resolve(DB_FILE) \in DOMAIN files
    /\ files' = [q \in DOMAIN files \ {Resolve(DB_FILE)} |-> files[q]]
    /\ UNCHANGED <<now, cwd, dirs, resp, saved, nSaves, reqs, running, appended, ex, ui>>

SaveRequest == \E result \in Results : PostSaveResult(result)

ReadRequest == \E name \in RequestNames \cup DOMAIN saved : GetResultFile(name)

NextArchive == SaveRequest \/ ReadRequest \/ ListResults \/ ResultsDirRemoved \/ Tick

SpecArchive == Init /\ [][NextArchive]_vars

AppendArrives == \E data \in Payloads : ReceiveAppend(data)

AppendReads == \E r \in 1..MaxReqs : HandlerRead(r)

AppendWrites == \E r \in 1..MaxReqs : HandlerWrite(r)

NextStore == AppendArrives \/ AppendReads \/ AppendWrites \/ GetPrescriptions \/ Tick

SpecStore == Init /\ [][NextStore]_vars

NextRestart ==
    \/ AppendArrives \/ AppendReads \/ AppendWrites \/ GetPrescriptions
    \/ Restart \/ StoreFileCorrupted \/ StoreFileRemoved

SpecRestart == Init /\ [][NextRestart]_vars

ExtractCalled == \E image \in Images, mimeType \in MimeTypes : Extract(image, mimeType)

ProviderReturns == \E text \in ProviderTexts : ProviderAnswers(text)

NextExtract == ExtractCalled \/ ProviderReturns \/ ProviderRejects

SpecExtract == Init /\ [][NextExtract]_vars

FileChosen == \E image \in Images, fileType \in MimeTypes : ProcessFile(image, fileType)

AppendFetchSettles == \E outcome \in FetchOutcomes : AppendSettles(outcome)

SaveFetchSettles == \E outcome \in FetchOutcomes : SaveSettles(outcome)

SaveBodySettles == \E parsed \in BOOLEAN : BodySettles(parsed)

NextClient ==
    \/ FileChosen \/ HandleProcess \/ ExtractionSettles
    \/ AppendFetchSettles \/ SaveFetchSettles \/ SaveBodySettles

\* Every awaited call settles: the continuation of an await that can run does
\* run.
SpecClient ==
    /\ Init /\ [][NextClient]_vars
    /\ WF_vars(ExtractionSettles) /\ WF_vars(AppendFetchSettles)
    /\ WF_vars(SaveFetchSettles) /\ WF_vars(SaveBodySettles)

Next == NextArchive \/ NextStore \/ NextExtract \/ NextRestart \/ NextClient

Spec == Init /\ [][Next]_vars

-----------------------------------------------------------------------------
(* Properties of the Result File Archive *)

IsPrefix(a, b) == Len(a) <= Len(b) /\ SubSeq(b, 1, Len(a)) = a

\* The file a read of `name` is about: results/<base name of name>.
ArchiveTarget(name) == Resolve(PathJoin(ResultsDir, PathBasename(name)))

\* The requested name, taken literally under results/, leaves results/.
EscapesResults(name) ==
    ~StartsWith(Resolve(ResultsDir \o <<Slash>> \o name), Append(Resolve(ResultsDir), Slash))

\* C1: after a save of R succeeded and returned filename f, a read of f is
\* served (status 200) and the served content is the JSON text save wrote.
C1_RoundTrip ==
    (resp.op = "get" /\ resp.name \in DOMAIN saved)
        => (resp.status = 200 /\ resp.content = saved[resp.name])

\* C2: a read of a name whose base name is no file of the results directory
\* answers 404 NOT_FOUND.
C2_MissingIsNotFound ==
    (resp.op = "get" /\ ArchiveTarget(resp.name) \notin DOMAIN files
                     /\ ArchiveTarget(resp.name) \notin dirs)
        => resp.status = 404

\* C3: a read never serves a file outside the results directory, and a read
\* whose requested path would leave the results directory answers 403.
C3_ReadConfined ==
    resp.op = "get" =>
        /\ resp.status = 200 => PathDirname(Resolve(resp.filepath)) = Resolve(ResultsDir)
        /\ EscapesResults(resp.name) => resp.status = 403

C3_Witness ==
    /\ resp.op = "get"
    /\ resp.name = <<".", ".", "/", ".", ".", "/", "e", "t", "c", "/", "p", "a", "s", "s", "w", "d">>
    /\ EscapesResults(resp.name)
    /\ resp.status = 403

\* C4: a successful save wrote its file directly inside the results directory,
\* whatever metadata.doctor_name is, and the returned filepath is that file.
C4_SaveConfined ==
    (resp.op = "save" /\ resp.status = 200) =>
        /\ PathDirname(Resolve(resp.filepath)) = Resolve(ResultsDir)
        /\ Resolve(resp.filepath) \in DOMAIN files

\* The filename C8 states, computed from the payload and the save instant: D
\* is the doctor name with each run of whitespace turned into one underscore,
\* "unknown" when metadata or doctor_name is absent or empty; T is the date,
\* "T", and hours, minutes and whole seconds separated by hyphens.
StatedDoctor(result) ==
    LET meta == Get(result, "metadata")
        doctor == IF IsNullish(meta) THEN Undefined ELSE Get(meta, "doctor_name")
        s == IF doctor.t = "string" THEN doctor.s ELSE <<>>
        marks == [i \in 1..Len(s) |->
                    IF ~IsSpace(s[i]) THEN s[i]
                    ELSE IF i > 1 /\ IsSpace(s[i - 1]) THEN "" ELSE "_"]
        Kept(c) == c # ""
    IN  IF s = <<>> THEN <<"u", "n", "k", "n", "o", "w", "n">> ELSE SelectSeq(marks, Kept)

StatedTimestamp(ms) ==
    LET secs == ms \div 1000 IN
    EpochDate \o <<"T">> \o Pad2(secs \div 3600) \o <<"-">>
        \o Pad2((secs \div 60) % 60) \o <<"-">> \o Pad2(secs % 60)

\* C8: the filename a successful save returns is prescription_<D>_<T>.json.
C8_FilenameFormat ==
    (resp.op = "save" /\ resp.status = 200) =>
        resp.filename = <<"p", "r", "e", "s", "c", "r", "i", "p", "t", "i", "o", "n", "_">> \o StatedDoctor(resp.result) \o <<"_">>
                            \o StatedTimestamp(resp.at) \o <<".", "j", "s", "o", "n">>

C8_Witness ==
    /\ resp.op = "save"
    /\ resp.status = 200
    /\ resp.result = ResultWith(MetaWith(JSString(<<"D", "r", ".", " ", "J", "a", "n", "e", " ", "S", "m", "i", "t", "h">>)))
    /\ resp.at = 500
    /\ resp.filename = <<"p", "r", "e", "s", "c", "r", "i", "p", "t", "i", "o", "n", "_", "D", "r", ".", "_", "J", "a", "n", "e", "_", "S", "m", "i", "t", "h", "_", "1", "9", "7", "0", "-", "0", "1", "-", "0", "1", "T", "0", "0", "-", "0", "0", "-", "0", "0", ".", "j", "s", "o", "n">>

\* C9: a save request without a result payload (absent or null) answers 400
\* and changes no file and no directory; the store file is one of the files.
C9_MissingResultRejected ==
    [][(nSaves' = nSaves + 1 /\ IsNullish(resp'.result))
          => (resp'.status = 400 /\ files' = files /\ dirs' = dirs)]_vars

C9_Witness ==
    /\ resp.op = "save"
    /\ resp.result = Null
    /\ resp.status = 400
    /\ Cardinality(DOMAIN files) > 1

-----------------------------------------------------------------------------
(* Properties of the Result Store *)

\* The records of the store file of file system fs (none when it is unreadable).
ItemsOf(fs) ==
    LET got == getPrescriptions(fs)
    IN  IF got.ok /\ got.value.t = "array" THEN got.value.items ELSE <<>>

StoredItems == ItemsOf(files)

PayloadsOf(items) == [i \in 1..Len(items) |-> Get(items[i], "data")]

\* C5: the store lists exactly the appended payloads in append order, an
\* append leaves the records stored before it unchanged and in place, and a
\* list request returns what is stored.
C5_AppendOrder ==
    [][/\ getPrescriptions(files).ok /\ PayloadsOf(StoredItems) = appended
       /\ getPrescriptions(files').ok /\ PayloadsOf(ItemsOf(files')) = appended'
       /\ IsPrefix(StoredItems, ItemsOf(files'))
       /\ (resp'.op = "list" /\ resp' # resp)
             => (resp'.status = 200
                 /\ PayloadsOf(JSONParse(resp'.content).value.items) = appended)]_vars

C5_Witness ==
    /\ Len(appended) >= 2
    /\ appended[1] # appended[2]
    /\ Len(StoredItems) = Len(appended)
    /\ resp.op = "list"
    /\ resp.content = files[Resolve(DB_FILE)]

\* C6: every stored record has an id strictly greater than the id of every
\* record appended before it (so ids are unique), whatever the timing.
C6_IdsStrictlyIncreasing ==
    \A i, j \in 1..Len(StoredItems) :
        i < j => Get(StoredItems[i], "id").n < Get(StoredItems[j], "id").n

Succeeded == {r \in 1..Len(reqs) : reqs[r].status = 200}

\* C7 (as claimed): while one append request has read the list and not yet
\* rewritten the file, another request that is ready can take its read step.
C7_AppendsInterleave ==
    \A r1, r2 \in 1..Len(reqs) :
        (reqs[r1].pc = "read" /\ reqs[r2].pc = "queued") => ENABLED HandlerRead(r2)

\* C7 (amended): no update is lost. The store holds one record for every
\* append request that reported success, with the id it reported.
C7_NoLostUpdate ==
    /\ Len(StoredItems) = Cardinality(Succeeded)
    /\ \A r \in Succeeded :
          \E i \in 1..Len(StoredItems) :
              /\ Get(StoredItems[i], "id") = JSNumber(reqs[r].id)
              /\ Get(StoredItems[i], "data") = reqs[r].data

\* Two requests that were in flight together have both reported success.
C7_Witness ==
    \E r1, r2 \in Succeeded : r1 # r2 /\ r1 \in reqs[r2].inFlight

-----------------------------------------------------------------------------
(* Properties of the extraction client *)

ExDone == ex.pc \in {"returned", "threw"}

\* C10: an invocation makes exactly one provider call and never retries; on an
\* absent or empty text it fails with the empty-response error, on a text that
\* is not JSON with a parse error, and in neither case returns a result.
C10_NoRetryFailures ==
    /\ ex.pc # "idle" => ex.calls = 1
    /\ (ExDone /\ ex.error # "provider error") =>
          /\ (ex.text.kind = "none" \/ ex.text = RawText(<<>>))
                => (ex.pc = "threw" /\ ex.error = "No response from AI"
                    /\ ex.result = Undefined)
          /\ (ex.text.kind = "raw" /\ ex.text.chars # <<>>)
                => (ex.pc = "threw" /\ ex.error = "SyntaxError"
                    /\ ex.result = Undefined)

C10_Witness ==
    /\ ex.pc = "threw"
    /\ ex.text = RawText(<<>>)
    /\ ex.error = "No response from AI"
    /\ ex.calls = 1

-----------------------------------------------------------------------------
(* Properties of the Result Store across restarts and faults *)

StorePresent(fs) == Resolve(DB_FILE) \in DOMAIN fs

\* C11: initDb creates the store file holding an empty array when it is
\* absent and leaves an existing file unchanged, so a restart after appends
\* loses no record, and running it twice is the same as running it once.
C11_InitDbIdempotent ==
    [][Restart =>
          /\ StorePresent(files')
          /\ StorePresent(files) => files' = files
          /\ ~StorePresent(files) =>
                /\ files'[Resolve(DB_FILE)] = JSONText(JSArray(<<>>))
                /\ \A q \in DOMAIN files : files'[q] = files[q]
          /\ ItemsOf(files') = ItemsOf(files)
          /\ initDb(files') = files']_vars

\* A restart cut a request short and the records appended before it are kept.
C11_Witness ==
    /\ \E r \in 1..Len(reqs) : reqs[r].pc = "done" /\ reqs[r].status = 0
    /\ Len(StoredItems) >= 1
    /\ Len(StoredItems) = Len(appended)

StoreCorrupt(fs) == StorePresent(fs) /\ ~JSONParse(fs[Resolve(DB_FILE)]).ok

IsErrorBody(text) ==
    /\ JSONParse(text).ok
    /\ JSONParse(text).value.t = "object"
    /\ DOMAIN JSONParse(text).value.f = {"error"}

\* C14: while the store file is not valid JSON, a list request and an append
\* request both answer 500 with a JSON error body, leave every file as it was,
\* and leave the server free to handle the next request.
C14_CorruptStoreFails ==
    [][StoreCorrupt(files) =>
          /\ GetPrescriptions =>
                /\ resp'.op = "list" /\ resp'.status = 500 /\ IsErrorBody(resp'.content)
                /\ files' = files /\ running' = 0
          /\ \A r \in 1..Len(reqs) : HandlerRead(r) =>
                /\ reqs'[r].pc = "done" /\ reqs'[r].status = 500
                /\ IsErrorBody(reqs'[r].body)
                /\ files' = files /\ running' = 0]_vars

\* On a corrupt store a list and an append failed, and a later append was
\* still handled.
C14_Witness ==
    /\ StoreCorrupt(files)
    /\ resp.op = "list" /\ resp.status = 500
    /\ Len(reqs) >= 2
    /\ reqs[1].status = 500 /\ reqs[2].status = 500
    /\ running = 0

-----------------------------------------------------------------------------
(* Properties of the archive list and of colliding saves *)

\* C12: a list of the archive returns only names ending in .json, returns no
\* name when the results directory does not exist, and returns every filename
\* that a successful save returned.
C12_ListComplete ==
    [][ListResults =>
          /\ \A f \in resp'.names : EndsWith(f, <<".", "j", "s", "o", "n">>)
          /\ Resolve(ResultsDir) \notin dirs => resp'.names = {}
          /\ DOMAIN saved \subseteq resp'.names]_vars

\* C13: a successful save that computes the filename of an earlier successful
\* save leaves one file of that name holding the later result, and the set of
\* files does not grow.
C13_CollisionOverwrites ==
    [][(nSaves' = nSaves + 1 /\ resp'.status = 200 /\ resp'.filename \in DOMAIN saved)
          => /\ DOMAIN files' = DOMAIN files
             /\ files'[Resolve(resp'.filepath)] = JSONStringify(resp'.result)
             /\ \A q \in DOMAIN files :
                   q # Resolve(resp'.filepath) => files'[q] = files[q]]_vars

\* A second successful save replaced the file of an earlier one with another
\* content.
C13_Witness ==
    /\ resp.op = "save" /\ resp.status = 200 /\ resp.replaced
    /\ nSaves >= 2
    /\ resp.result = JSObject([status |-> JSString(<<"o", "k">>)])
    /\ files[Resolve(resp.filepath)] = JSONStringify(resp.result)
    /\ Cardinality(DOMAIN files) = 2

-----------------------------------------------------------------------------
(* Properties of the image payload *)

DataScheme == <<"d", "a", "t", "a", ":">>

HasComma(s) == \E i \in 1..Len(s) : s[i] = ","

\* A data URL: the scheme, metadata, a comma, the base64 body.
IsDataUrl(s) == StartsWith(s, DataScheme) /\ HasComma(s)

\* The part of a data URL after its metadata prefix (after the first comma).
BodyOf(s) ==
    LET comma == CHOOSE i \in 1..Len(s) :
                    s[i] = "," /\ \A j \in 1..(i - 1) : s[j] # ","
    IN  SubSeq(s, comma + 1, Len(s))

\* C15: of a data URL the data sent to the provider is exactly the part after
\* the metadata prefix and never holds the prefix; a payload that is not a
\* data URL (base64, which holds no comma) is sent unchanged.
C15_PrefixStripped ==
    ex.pc # "idle" =>
        /\ IsDataUrl(ex.image) =>
              (ex.data = BodyOf(ex.image) /\ ~StartsWith(ex.data, DataScheme))
        /\ ~HasComma(ex.image) => ex.data = ex.image

-----------------------------------------------------------------------------
(* The client's process flow *)

Issued(u, e) == \E i \in 1..Len(u.trace) : u.trace[i] = e

\* Every "save issued" in the trace of the run comes after an "append settled".
AppendSettledBeforeSave(u) ==
    \A i \in 1..Len(u.trace) :
        u.trace[i] = "save issued" =>
            \E j \in 1..(i - 1) : u.trace[j] = "append settled"

Running(u) == u.pc \in {"extracting", "appending", "saving", "reading"}

\* The extraction call of the current run has returned a result.
ExtractionSucceeded == ui.pc \in {"appending", "saving", "reading", "done"} /\ ex.pc = "returned"

\* handleProcess left with nothing issued, the generic error set and loading
\* false.
Failed(u) ==
    /\ ~Issued(u, "append issued") /\ ~Issued(u, "save issued")
    /\ u.error = GenericError
    /\ ~u.loading

=============================================================================
